---- MODULE Spec2Model ----
(***************************************************************************)
(* SEED tool (src/streamlit_app.py): the project data model, the           *)
(* aggregation engine, the import/export documents and the Streamlit       *)
(* script that drives them.                                                *)
(*                                                                         *)
(* One step of the model is one run of the script, started by one user     *)
(* interaction.  A run that calls st.rerun() is followed at once by a run  *)
(* without interaction; both are one step.  A widget returns the value the *)
(* code passes as its default unless the user changes it in this run.      *)
(*                                                                         *)
(* Python values:                                                          *)
(*   Optional[x]     << >> for None, <<x>> for a value                     *)
(*   dict (ordered)  a sequence of <<key, value>> pairs with distinct keys *)
(*   grid row        a function factor -> cell (its order is never read)   *)
(*   float           a fraction [n, d] in lowest terms; d = 0 is NaN       *)
(***************************************************************************)
EXTENDS Integers, Sequences, FiniteSets, TLC

\* ------------------------------------------------------------ bounds
\* Stages and factors that carry scores in the documents of the aggregation runs.
MaxAggStages == 2
MaxAggFactors == 3
\* Editing interactions (Steps 2-4) over all sessions.
MaxEdits == 1
\* The rows of a section, the stages and the factors per dimension the user edits.
MaxEditRow == 2
MaxEditFactor == 1

\* Denominators of the values given to interp_label.
MaxInterpDen == 4

\* Factors of the grids and factor lists given to ensure_grid.
MaxGridFactors == 2

\* Edits of the stage editor in a session that only edits stages.
MaxScopingEdits == 2

\* ------------------------------------------------------------ Python values
None == << >>

Some(x) == <<x>>

Range(s) == {s[i] : i \in 1..Len(s)}

Min(a, b) == IF a < b THEN a ELSE b

\* dict: keys(), in, [], [k] = v (an update keeps the key's place, a new key goes last), pop
Keys(d) == [i \in 1..Len(d) |-> d[i][1]]

KeySet(d) == {d[i][1] : i \in 1..Len(d)}

Has(d, k) == k \in KeySet(d)

Get(d, k) == d[CHOOSE i \in 1..Len(d) : d[i][1] = k][2]

Put(d, k, v) ==
    IF Has(d, k)
    THEN [i \in 1..Len(d) |-> IF d[i][1] = k THEN <<k, v>> ELSE d[i]]
    ELSE Append(d, <<k, v>>)

Pop(d, k) == SelectSeq(d, LAMBDA e : e[1] # k)

\* The elements of s at the indices idx, in order.
Pick(s, idx) ==
    [k \in 1..Cardinality(idx) |-> s[CHOOSE i \in idx : Cardinality({j \in idx : j <= i}) = k]]

\* s without the repetitions of an element that came before.
FirstOccurrences(s) == Pick(s, {i \in 1..Len(s) : \A j \in 1..(i - 1) : s[j] # s[i]})

\* for k in keys: d[k] = v
PutAll(d, keys, v) ==
    [i \in 1..Len(d) |-> IF d[i][1] \in Range(keys) THEN <<d[i][1], v>> ELSE d[i]]
    \o LET new == FirstOccurrences(SelectSeq(keys, LAMBDA k : ~Has(d, k)))
       IN [i \in 1..Len(new) |-> <<new[i], v>>]

\* for k in keys: d[k] = d.get(k, v)
PutMissing(d, keys, v) ==
    d \o LET new == FirstOccurrences(SelectSeq(keys, LAMBDA k : ~Has(d, k)))
         IN [i \in 1..Len(new) |-> <<new[i], v>>]

\* ------------------------------------------------------------ numbers
RECURSIVE GCD(_, _)
GCD(a, b) == IF b = 0 THEN a ELSE GCD(b, a % b)

Frac(n, d) == LET g == GCD(n, d) IN [n |-> n \div g, d |-> d \div g]

NaN == [n |-> 0, d |-> 0]

IsNaN(x) == x.d = 0

FracLess(a, b) == a.n * b.d < b.n * a.d

FracAdd(a, b) == Frac(a.n * b.d + b.n * a.d, a.d * b.d)

RECURSIVE SumSeq(_)
SumSeq(s) == IF s = << >> THEN 0 ELSE Head(s) + SumSeq(Tail(s))

RECURSIVE FracSumSeq(_)
FracSumSeq(s) == IF s = << >> THEN Frac(0, 1) ELSE FracAdd(Head(s), FracSumSeq(Tail(s)))

\* statistics.mean of a non-empty list of numbers / of fractions
mean(vals) == Frac(SumSeq(vals), Len(vals))

mean_of_fracs(vals) == LET s == FracSumSeq(vals) IN Frac(s.n, s.d * Len(vals))

\* round(x, 2): the nearest multiple of 1/100, an exact tie going to the even one
round2(x) ==
    LET q == (100 * x.n) \div x.d
        r == (100 * x.n) % x.d
        h == IF 2 * r < x.d THEN q
             ELSE IF 2 * r > x.d THEN q + 1
             ELSE IF q % 2 = 0 THEN q ELSE q + 1
    IN Frac(h, 100)

\* A float next to a fraction: n/d plus tiny times 5e-10, tiny in {-1, 0, 1}. The
\* averages of the app are fractions (tiny = 0).
Tiny(x) == IF "tiny" \in DOMAIN x THEN x.tiny ELSE 0

INTERPRETATION ==
    <<[label |-> "Measurably Worse", upper |-> 1], [label |-> "Possibly Worse", upper |-> 2],
      [label |-> "Equal", upper |-> 3], [label |-> "Possibly Better", upper |-> 4],
      [label |-> "Measurably Better", upper |-> 5]>>

\* value <= upper + 1e-9. The fractions of the model have denominators far below 1e9:
\* n/d above upper is above it by 1/d at least, which no offset of 5e-10 brings back
\* under upper + 1e-9, and n/d = upper stays under it with the offset. NaN compares
\* false.
at_most_upper(value, upper) == ~IsNaN(value) /\ value.n <= upper * value.d

\* interp_label that takes the first band whose upper bound is above the value.
interp_label_below_upper(value) ==
    IF \E i \in 1..Len(INTERPRETATION) :
          ~IsNaN(value) /\ value.n < INTERPRETATION[i].upper * value.d
    THEN INTERPRETATION[CHOOSE i \in 1..Len(INTERPRETATION) :
            /\ value.n < INTERPRETATION[i].upper * value.d
            /\ \A j \in 1..(i - 1) : ~(value.n < INTERPRETATION[j].upper * value.d)].label
    ELSE "n/a"

interp_label(value) ==
    IF \E i \in 1..Len(INTERPRETATION) : at_most_upper(value, INTERPRETATION[i].upper)
    THEN INTERPRETATION[CHOOSE i \in 1..Len(INTERPRETATION) :
            /\ at_most_upper(value, INTERPRETATION[i].upper)
            /\ \A j \in 1..(i - 1) : ~at_most_upper(value, INTERPRETATION[j].upper)].label
    ELSE "n/a"

\* ------------------------------------------------------------ data & configuration
WORKFLOW_STEPS == <<"1) TRL & actors", "2) Scoping & lifecycle", "3) Select factors (3 each)",
                    "4) Scoring grid", "5) Results & plots">>

Dimensions == <<"Environmental", "Social", "Economic">>

\* The catalogue entries flagged "selected": True, in catalogue order.
DefaultSelected ==
    [Environmental |-> <<"Climate change", "Resource use, fossils", "Land Use">>,
     Social |-> <<"Health and safety (workers)",
                  "Public commitment to sustainability issues (society)",
                  "End of life responsibility (consumers)">>,
     Economic |-> <<"Complexity of production process", "Raw material cost",
                    "Cost of final product">>]

\* ------------------------------------------------------------ data model
FactorScore(score, note) == [cls |-> "FactorScore", score |-> score, note |-> note]

NewFactorScore == FactorScore(None, "")

\* A JSON object standing for a cell: its keys and values.
DictCell(items) == [cls |-> "dict", items |-> items]

ProjectFields == {"name", "description", "trl", "scoping_notes", "lifecycle_stages",
                  "lifecycle_changed", "selected_factors", "grid", "core_function",
                  "functional_unit"}

FieldDefault(f) ==
    CASE f = "trl" -> 4
      [] f \in {"lifecycle_stages", "lifecycle_changed", "selected_factors", "grid"} -> << >>
      [] OTHER -> ""

\* Project(**data) that wants every field.
ProjectAccepts_every_field(data) == DOMAIN data = ProjectFields

\* Project(**data): data's keys are field names and name is among them.
ProjectAccepts(data) == DOMAIN data \subseteq ProjectFields /\ "name" \in DOMAIN data

Project(data) == [f \in ProjectFields |-> IF f \in DOMAIN data THEN data[f] ELSE FieldDefault(f)]

\* selected_factors.get(dim, [])
SelectedOf(p, dim) == IF dim \in DOMAIN p.selected_factors THEN p.selected_factors[dim] ELSE << >>

AllSelected(p) ==
    SelectedOf(p, "Environmental") \o SelectedOf(p, "Social") \o SelectedOf(p, "Economic")

\* One stage of ensure_grid: its row gets a fresh cell for every factor it lacks and
\* loses every cell whose factor is not in all_factors.
\* ensure_row that gives every factor a fresh cell.
ensure_row_fresh(stage_map, all_factors) ==
    [f \in Range(all_factors) |-> NewFactorScore]

ensure_row(stage_map, all_factors) ==
    [f \in Range(all_factors) |->
        IF f \in DOMAIN stage_map THEN stage_map[f] ELSE NewFactorScore]

\* The loop over lifecycle_stages: the rows of current stages are fixed in place, the
\* stages without a row get one at the end, in the stages' order; other rows stay.
ensure_grid(p, all_factors) ==
    LET stages == p.lifecycle_stages
        new == FirstOccurrences(SelectSeq(stages, LAMBDA st : ~Has(p.grid, st)))
    IN [p EXCEPT !.grid =
          [i \in 1..Len(@) |->
              IF @[i][1] \in Range(stages) THEN <<@[i][1], ensure_row(@[i][2], all_factors)>>
              ELSE @[i]]
          \o [i \in 1..Len(new) |-> <<new[i], ensure_row(<< >>, all_factors)>>]]

\* getattr(fs, "score", None)
score_of(fs) == IF fs.cls = "FactorScore" THEN fs.score ELSE None

\* A set's elements as a list (the order of a row's cells is never read).
RECURSIVE SetToSeq(_)
SetToSeq(S) == IF S = {} THEN << >> ELSE LET x == CHOOSE y \in S : TRUE IN <<x>> \o SetToSeq(S \ {x})

\* [fs.score for fs in facs.values() if fs.score is not None]
known_scores(facs) ==
    LET fl == SetToSeq({f \in DOMAIN facs : score_of(facs[f]) # None})
    IN [i \in 1..Len(fl) |-> score_of(facs[fl[i]])[1]]

\* stage_average with the unknown cells counted in the denominator.
stage_average_counting_unknown(facs) ==
    LET vals == known_scores(facs)
    IN IF vals # << >> THEN Frac(SumSeq(vals), Cardinality(DOMAIN facs)) ELSE NaN

\* stage_average with 0 for a row without known scores.
stage_average_zero_when_empty(facs) ==
    LET vals == known_scores(facs) IN IF vals # << >> THEN mean(vals) ELSE Frac(0, 1)

stage_average(facs) ==
    LET vals == known_scores(facs) IN IF vals # << >> THEN mean(vals) ELSE NaN

\* dict stage -> average, in the grid's order
average_by_stage(p) == [i \in 1..Len(p.grid) |-> <<p.grid[i][1], stage_average(p.grid[i][2])>>]

\* The known scores of factor f over all rows, row by row.
RECURSIVE factor_scores(_, _)
factor_scores(grid, f) ==
    IF grid = << >> THEN << >>
    ELSE LET facs == Head(grid)[2]
         IN (IF f \in DOMAIN facs /\ score_of(facs[f]) # None
             THEN <<score_of(facs[f])[1]>> ELSE << >>) \o factor_scores(Tail(grid), f)

\* average_by_factor with a key for every factor of the grid, NaN without known scores.
average_by_factor_every_factor(p) ==
    [f \in UNION {DOMAIN p.grid[i][2] : i \in 1..Len(p.grid)} |->
        IF factor_scores(p.grid, f) # << >> THEN mean(factor_scores(p.grid, f)) ELSE NaN]

\* A function: factor -> average, over the factors with a known score.
average_by_factor(p) ==
    LET named == UNION {DOMAIN p.grid[i][2] : i \in 1..Len(p.grid)}
        acc == {f \in named : factor_scores(p.grid, f) # << >>}
    IN [f \in acc |-> mean(factor_scores(p.grid, f))]

\* [v for v in average_by_stage().values() if not math.isnan(v)]
valid_averages(avs) ==
    LET valid == SelectSeq(avs, LAMBDA kv : ~IsNaN(kv[2]))
    IN [i \in 1..Len(valid) |-> valid[i][2]]

overall_score(p) ==
    LET vals == valid_averages(average_by_stage(p))
    IN IF vals # << >> THEN Some(round2(mean_of_fracs(vals))) ELSE None

\* FactorScore(**fs): fs's keys are among score and note; a missing one gets its default.
CellAccepts(fs) == fs.cls # "dict" \/ DOMAIN fs.items \subseteq {"score", "note"}

\* coerce_cell that rebuilds the cell from its score alone.
coerce_cell_score_only(fs) ==
    IF fs.cls = "dict"
    THEN FactorScore(IF "score" \in DOMAIN fs.items THEN fs.items.score ELSE None, "")
    ELSE fs

\* coerce_cell that gives a record without score the slider's neutral value.
coerce_cell_default_three(fs) ==
    IF fs.cls = "dict"
    THEN FactorScore(IF "score" \in DOMAIN fs.items THEN fs.items.score ELSE Some(3),
                     IF "note" \in DOMAIN fs.items THEN fs.items.note ELSE "")
    ELSE fs

coerce_cell(fs) ==
    IF fs.cls = "dict"
    THEN FactorScore(IF "score" \in DOMAIN fs.items THEN fs.items.score ELSE None,
                     IF "note" \in DOMAIN fs.items THEN fs.items.note ELSE "")
    ELSE fs

coerce_grid_ok(p) ==
    \A i \in 1..Len(p.grid) : \A f \in DOMAIN p.grid[i][2] : CellAccepts(p.grid[i][2][f])

coerce_grid(p) ==
    [p EXCEPT !.grid = [i \in 1..Len(p.grid) |->
        <<p.grid[i][1], [f \in DOMAIN p.grid[i][2] |-> coerce_cell(p.grid[i][2][f])]>>]]

\* asdict(project): every FactorScore becomes a plain record of its two fields.
asdict_cell(fs) ==
    IF fs.cls = "FactorScore" THEN DictCell([score |-> fs.score, note |-> fs.note]) ELSE fs

asdict(p) ==
    [p EXCEPT !.grid = [i \in 1..Len(p.grid) |->
        <<p.grid[i][1], [f \in DOMAIN p.grid[i][2] |-> asdict_cell(p.grid[i][2][f])]>>]]

\* ------------------------------------------------------------ strings of the model
\* str.strip() on the texts the model types: only " " has surrounding blanks.
Strip(s) == IF s = " " THEN "" ELSE s

\* ------------------------------------------------------------ Step 2 tables
SECTION_TITLES == <<"Product (A0-A3)", "Construction (A4-A5)", "Use (B1-B5)", "End of Life (C1-C4, D)">>

Codes == <<"A0", "A1", "A2", "A3", "A4", "A5", "B1", "B2", "B3", "B4", "B5",
           "B6", "B7", "B8", "B9", "C1", "C2", "C3", "C4", "D">>

CODE_TO_LABEL ==
    [c \in Range(Codes) |->
        CASE c = "A0" -> "A0 - Pre-construction (design & non-physical activities) [UK]"
          [] c = "A1" -> "A1 - Raw Material Supply"
          [] c = "A2" -> "A2 - Transport to Manufacturer"
          [] c = "A3" -> "A3 - Manufacturing"
          [] c = "A4" -> "A4 - Transport to Site"
          [] c = "A5" -> "A5 - Installation on Site"
          [] c = "B1" -> "B1 - Use/Application"
          [] c = "B2" -> "B2 - Maintenance"
          [] c = "B3" -> "B3 - Repair"
          [] c = "B4" -> "B4 - Replacement"
          [] c = "B5" -> "B5 - Refurbishment"
          [] c = "B6" -> "B6 - Operational Energy Use"
          [] c = "B7" -> "B7 - Operational Water Use"
          [] c = "B8" -> "B8 - Operational Transport (NS3720/PAS2080/EN-17472)"
          [] c = "B9" -> "B9 - User Utilisation (PAS2080)"
          [] c = "C1" -> "C1 - Deconstruction/Demolition"
          [] c = "C2" -> "C2 - Transport to Waste Processing"
          [] c = "C3" -> "C3 - Waste Processing for Reuse/Recovery/Recycling"
          [] c = "C4" -> "C4 - Disposal"
          [] c = "D" -> "D - Reuse/Recovery/Recycling Potentials (beyond boundary)"]

\* re.match(r"^\s*([ABCD]\d?)\b", name.upper()): the names of the model are the labels
\* above ("A1 - ..." gives A1), the bare codes, and names with no code at their start
\* ("Use", "Use Phase", ""), for which there is no match.
code_from_name(name) ==
    IF \E c \in Range(Codes) : CODE_TO_LABEL[c] = name
    THEN Some(CHOOSE c \in Range(Codes) : CODE_TO_LABEL[c] = name)
    ELSE IF name \in Range(Codes) THEN Some(name) ELSE None

\* The section (1..4) of a code; 0 stands for the AttributeError of None.upper().
bucket_for_code(code) ==
    IF code = None THEN 0
    ELSE IF code[1] \in {"A0", "A1", "A2", "A3"} THEN 1
    ELSE IF code[1] \in {"A4", "A5"} THEN 2
    ELSE IF code[1] \in {"B1", "B2", "B3", "B4", "B5"} THEN 3
    ELSE IF code[1] \in {"C1", "C2", "C3", "C4", "D"} THEN 4
    ELSE 1

\* CODE_TO_LABEL.get(code, name)
canonical_label(name) ==
    LET code == code_from_name(name)
    IN IF code # None /\ code[1] \in DOMAIN CODE_TO_LABEL THEN CODE_TO_LABEL[code[1]] ELSE name

\* The first flag, in the dict's order, whose key has the given code.
RECURSIVE first_flag_with_code(_, _)
first_flag_with_code(changed, code) ==
    IF changed = << >> THEN FALSE
    ELSE IF code_from_name(Head(changed)[1]) = code THEN Head(changed)[2]
    ELSE first_flag_with_code(Tail(changed), code)

changed_flag_from_project(p, label) ==
    IF Has(p.lifecycle_changed, label) THEN Get(p.lifecycle_changed, label)
    ELSE first_flag_with_code(p.lifecycle_changed, code_from_name(label))

DEFAULT_PRODUCT == <<"A1", "A2", "A3">>
DEFAULT_CONSTR == <<"A4", "A5">>
DEFAULT_USE == <<"B1", "B2", "B3", "B4", "B5">>
DEFAULT_EOL == <<"C1", "C2", "C3", "C4">>

MAX_TOTAL == 7

\* list.remove(x): the first occurrence goes
RemoveFirst(lst, x) ==
    LET i == CHOOSE j \in 1..Len(lst) : lst[j] = x /\ \A k \in 1..(j - 1) : lst[k] # x
    IN SubSeq(lst, 1, i - 1) \o SubSeq(lst, i + 1, Len(lst))

PopAt(lst, i) == SubSeq(lst, 1, i - 1) \o SubSeq(lst, i + 1, Len(lst))

Swap(lst, i, j) == [lst EXCEPT ![i] = lst[j], ![j] = lst[i]]

RECURSIVE Flatten(_)
Flatten(ss) == IF ss = << >> THEN << >> ELSE Head(ss) \o Flatten(Tail(ss))

\* ------------------------------------------------------------ the session
\* The run state: st.session_state, what the sidebar's export button holds (payload),
\* what the run showed (notices, view) and how the run goes on (ctl).
\* Beside them: the file the user keeps from a download, and the number of editing
\* interactions so far (edits).
VARIABLES projects, active_project, step_idx, sections, seeded_canon_labels,
          inc_a0, inc_d, fu_draft, payload, notices, view, file, edits

vars == <<projects, active_project, step_idx, sections, seeded_canon_labels,
          inc_a0, inc_d, fu_draft, payload, notices, view, file, edits>>

Cur == [projects |-> projects, active_project |-> active_project, step_idx |-> step_idx,
        sections |-> sections, seeded_canon_labels |-> seeded_canon_labels,
        inc_a0 |-> inc_a0, inc_d |-> inc_d, fu_draft |-> fu_draft,
        payload |-> payload, notices |-> {}, view |-> None, ctl |-> "run"]

NoInput == [kind |-> "none"]

\* The active project of a run, and its replacement.
Proj(r) == r.projects[r.active_project[1]]

SetProj(r, p) == [r EXCEPT !.projects[r.active_project[1]] = p]

Notice(r, msg) == [r EXCEPT !.notices = @ \cup {msg}]

Halt(r, how) == [r EXCEPT !.ctl = how]

\* ------------------------------------------------------------ landing page
\* "New SEED Project", or the first "New SEED Project i" (i = 2, 3, ...) not yet taken.
NumberedName(i) == CASE i = 2 -> "New SEED Project 2" [] i = 3 -> "New SEED Project 3"
                     [] OTHER -> "New SEED Project 4"

new_project_name(existing) ==
    IF "New SEED Project" \notin existing THEN "New SEED Project"
    ELSE NumberedName(CHOOSE i \in 2..4 :
            NumberedName(i) \notin existing /\ \A j \in 2..(i - 1) : NumberedName(j) \in existing)

scoping_is_done(p) == Strip(p.functional_unit) # "" /\ Len(p.lifecycle_stages) > 0

\* The try block of the import: json.load, Project(**data), coerce_grid.
import_ok(uploaded) ==
    /\ uploaded.text_ok
    /\ ProjectAccepts(uploaded.data)
    /\ coerce_grid_ok(Project(uploaded.data))

\* render_landing that stores the project before coerce_grid.
render_landing_store_first(r, in) ==
    IF in.kind = "create"
    THEN LET name == new_project_name(DOMAIN r.projects)
         IN Halt([r EXCEPT !.projects = (name :> Project([name |-> name, description |-> ""])) @@ @,
                           !.active_project = Some(name),
                           !.step_idx = Some(0)], "rerun")
    ELSE IF in.kind = "import"
    THEN IF import_ok(in.uploaded)
         THEN LET proj == coerce_grid(Project(in.uploaded.data))
              IN Halt([r EXCEPT !.projects = (proj.name :> proj) @@ @,
                                !.active_project = Some(proj.name),
                                !.step_idx = Some(0)], "rerun")
         ELSE IF in.uploaded.text_ok /\ ProjectAccepts(in.uploaded.data)
         THEN Halt(Notice([r EXCEPT !.projects = (in.uploaded.data.name :>
                              Project(in.uploaded.data)) @@ @], "Could not import"), "stop")
         ELSE Halt(Notice(r, "Could not import"), "stop")
    ELSE Halt(r, "stop")

\* render_landing that makes the uploaded document's name the active project before
\* Project(**data) and coerce_grid.
render_landing_activate_first(r, in) ==
    IF in.kind = "create"
    THEN LET name == new_project_name(DOMAIN r.projects)
         IN Halt([r EXCEPT !.projects = (name :> Project([name |-> name, description |-> ""])) @@ @,
                           !.active_project = Some(name),
                           !.step_idx = Some(0)], "rerun")
    ELSE IF in.kind = "import"
    THEN IF import_ok(in.uploaded)
         THEN LET proj == coerce_grid(Project(in.uploaded.data))
              IN Halt([r EXCEPT !.projects = (proj.name :> proj) @@ @,
                                !.active_project = Some(proj.name),
                                !.step_idx = Some(0)], "rerun")
         ELSE IF in.uploaded.text_ok /\ "name" \in DOMAIN in.uploaded.data
         THEN Halt(Notice([r EXCEPT !.active_project = Some(in.uploaded.data.name),
                                    !.step_idx = Some(0)], "Could not import"), "stop")
         ELSE Halt(Notice(r, "Could not import"), "stop")
    ELSE Halt(r, "stop")

render_landing(r, in) ==
    IF in.kind = "create"
    THEN LET name == new_project_name(DOMAIN r.projects)
         IN Halt([r EXCEPT !.projects = (name :> Project([name |-> name, description |-> ""])) @@ @,
                           !.active_project = Some(name),
                           !.step_idx = Some(0)], "rerun")
    ELSE IF in.kind = "import"
    THEN IF import_ok(in.uploaded)
         THEN LET proj == coerce_grid(Project(in.uploaded.data))
              IN Halt([r EXCEPT !.projects = (proj.name :> proj) @@ @,
                                !.active_project = Some(proj.name),
                                !.step_idx = Some(0)], "rerun")
         ELSE Halt(Notice(r, "Could not import"), "stop")
    ELSE Halt(r, "stop")

\* ------------------------------------------------------------ navigation
\* bottom_nav whose Back button goes to the first step.
bottom_nav_back_to_start(r, in) ==
    IF r.ctl # "run" THEN r
    ELSE IF in.kind = "back" /\ r.step_idx[1] > 0
    THEN Halt([r EXCEPT !.step_idx = Some(0)], "rerun")
    ELSE IF in.kind = "next" /\ r.step_idx[1] < Len(WORKFLOW_STEPS) - 1
    THEN Halt([r EXCEPT !.step_idx = Some(@[1] + 1)], "rerun")
    ELSE r

bottom_nav(r, in) ==
    IF r.ctl # "run" THEN r
    ELSE IF in.kind = "back" /\ r.step_idx[1] > 0
    THEN Halt([r EXCEPT !.step_idx = Some(@[1] - 1)], "rerun")
    ELSE IF in.kind = "next" /\ r.step_idx[1] < Len(WORKFLOW_STEPS) - 1
    THEN Halt([r EXCEPT !.step_idx = Some(@[1] + 1)], "rerun")
    ELSE r

\* ------------------------------------------------------------ Step 2: scoping & lifecycle
\* for c in codes: _add_unique(bucket, c): the label joins the section unless it is
\* there, and its flag is set to False.
add_unique(r, bucket, codes) ==
    LET labels == [i \in 1..Len(codes) |-> CODE_TO_LABEL[codes[i]]]
        lst == r.sections[bucket]
        new == FirstOccurrences(SelectSeq(labels, LAMBDA l : l \notin Range(lst)))
    IN SetProj([r EXCEPT !.sections[bucket] = lst \o new],
               [Proj(r) EXCEPT !.lifecycle_changed = PutAll(@, labels, FALSE)])

sections_empty(r) == \A t \in 1..Len(SECTION_TITLES) : Len(r.sections[t]) = 0

seed_defaults(r) ==
    IF ~r.seeded_canon_labels /\ Proj(r).lifecycle_stages = << >> /\ sections_empty(r)
    THEN [add_unique(add_unique(add_unique(add_unique(
              r, 1, DEFAULT_PRODUCT), 2, DEFAULT_CONSTR), 3, DEFAULT_USE), 4, DEFAULT_EOL)
          EXCEPT !.seeded_canon_labels = TRUE]
    ELSE r

\* One stage of the preload loop; a stage whose name has no code ends the run with an
\* exception.
preload_stage(r, stage, label, bucket) ==
    IF bucket = 0 THEN Halt(Notice(r, "exception"), "crash")
    ELSE SetProj([r EXCEPT !.sections[bucket] = IF label \in Range(@) THEN @ ELSE Append(@, label)],
                 [Proj(r) EXCEPT !.lifecycle_changed =
                     Put(@, label, changed_flag_from_project(Proj(r), stage))])

RECURSIVE preload(_, _)
preload(r, stages) ==
    IF r.ctl # "run" \/ stages = << >> THEN r
    ELSE preload(preload_stage(r, Head(stages), canonical_label(Head(stages)),
                               bucket_for_code(code_from_name(Head(stages)))),
                 Tail(stages))

preload_or_seed(r) ==
    IF r.ctl # "run" THEN r
    ELSE IF sections_empty(r) /\ Proj(r).lifecycle_stages # << >>
    THEN preload(r, Proj(r).lifecycle_stages)
    ELSE seed_defaults(r)

\* The A0 and D checkboxes.
optional_module(r, on, bucket, code) ==
    IF on THEN add_unique(r, bucket, <<code>>)
    ELSE IF CODE_TO_LABEL[code] \in Range(r.sections[bucket])
    THEN LET r1 == [r EXCEPT !.sections[bucket] = RemoveFirst(@, CODE_TO_LABEL[code])]
         IN SetProj(r1, [Proj(r1) EXCEPT !.lifecycle_changed = Pop(@, CODE_TO_LABEL[code])])
    ELSE r

optional_modules(r, in) ==
    IF r.ctl # "run" THEN r
    ELSE LET r1 == [r EXCEPT !.inc_a0 = IF in.kind = "inc_a0" THEN ~@ ELSE @,
                             !.inc_d = IF in.kind = "inc_d" THEN ~@ ELSE @]
         IN optional_module(optional_module(seed_defaults(r1), r1.inc_a0, 1, "A0"), r1.inc_d, 4, "D")

\* The functional unit: its draft and the Save button.
functional_unit_form(r, in) ==
    IF r.ctl # "run" THEN r
    ELSE LET r1 == IF r.fu_draft = None THEN [r EXCEPT !.fu_draft = Some(Proj(r).functional_unit)]
                   ELSE r
             r2 == IF in.kind = "fu_type" THEN [r1 EXCEPT !.fu_draft = Some(in.text)] ELSE r1
         IN IF in.kind = "fu_save"
            THEN Halt(SetProj(r2, [Proj(r2) EXCEPT !.functional_unit = Strip(r2.fu_draft[1])]),
                      "rerun")
            ELSE r2

total_count(r) == Len(Flatten(r.sections))

\* Row i of section t: rename, flag, move up, move down, delete, write back.
stage_row(r, in, t, i) ==
    LET lst == r.sections[t]
        name == lst[i]
        p == Proj(r)
        hit == in.kind \in {"rename", "flag", "up", "down", "delete"} /\ in.sec = t /\ in.idx = i
        new_name == IF hit /\ in.kind = "rename" THEN in.name ELSE name
        will_change == IF Has(p.lifecycle_changed, name) THEN Get(p.lifecycle_changed, name)
                       ELSE FALSE
        new_change == IF hit /\ in.kind = "flag" THEN ~will_change ELSE will_change
    IN IF hit /\ in.kind = "up" /\ i > 1
       THEN Halt([r EXCEPT !.sections[t] = Swap(lst, i - 1, i)], "rerun")
       ELSE IF hit /\ in.kind = "down" /\ i < Len(lst)
       THEN Halt([r EXCEPT !.sections[t] = Swap(lst, i + 1, i)], "rerun")
       ELSE IF hit /\ in.kind = "delete"
       THEN Halt(SetProj([r EXCEPT !.sections[t] = PopAt(lst, i)],
                         [p EXCEPT !.lifecycle_changed = Pop(@, name)]), "rerun")
       ELSE IF new_name # name
       THEN SetProj([r EXCEPT !.sections[t][i] = new_name],
                    [p EXCEPT !.lifecycle_changed = Pop(Put(@, new_name, new_change), name)])
       ELSE SetProj(r, [p EXCEPT !.lifecycle_changed = Put(@, name, new_change)])

\* add_stage that refuses only above MAX_TOTAL.
add_stage_above_max(r, in, t) ==
    IF r.ctl # "run" \/ in.kind # "add" \/ in.sec # t THEN r
    ELSE IF Strip(in.name) = "" THEN Notice(r, "Please enter a stage name.")
    ELSE IF total_count(r) > MAX_TOTAL THEN Notice(r, "Max stages in total.")
    ELSE Halt(SetProj([r EXCEPT !.sections[t] = Append(@, Strip(in.name))],
                      [Proj(r) EXCEPT !.lifecycle_changed = Put(@, Strip(in.name), in.flag)]),
              "rerun")

add_stage(r, in, t) ==
    IF r.ctl # "run" \/ in.kind # "add" \/ in.sec # t THEN r
    ELSE IF Strip(in.name) = "" THEN Notice(r, "Please enter a stage name.")
    ELSE IF total_count(r) >= MAX_TOTAL THEN Notice(r, "Max stages in total.")
    ELSE Halt(SetProj([r EXCEPT !.sections[t] = Append(@, Strip(in.name))],
                      [Proj(r) EXCEPT !.lifecycle_changed = Put(@, Strip(in.name), in.flag)]),
              "rerun")

\* A row without interaction writes its flag back: lifecycle_changed[name] =
\* lifecycle_changed.get(name, False).
write_back(r, names) ==
    SetProj(r, [Proj(r) EXCEPT !.lifecycle_changed = PutMissing(@, names, FALSE)])

\* The loop over the sections: the rows of each, then its "Add stage" line. One
\* interaction per run: the rows before it write back, it acts, and unless it
\* restarted the run the rows after it write back.
stage_editor(r, in) ==
    IF r.ctl # "run" THEN r
    ELSE LET secs == r.sections
             upto(t, i) == Flatten(SubSeq(secs, 1, t - 1)) \o SubSeq(secs[t], 1, i)
             from(t, i) == SubSeq(secs[t], i, Len(secs[t]))
                           \o Flatten(SubSeq(secs, t + 1, Len(secs)))
         IN IF in.kind \in {"rename", "flag", "up", "down", "delete"}
            THEN LET r1 == stage_row(write_back(r, upto(in.sec, in.idx - 1)), in, in.sec, in.idx)
                 IN IF r1.ctl # "run" THEN r1 ELSE write_back(r1, from(in.sec, in.idx + 1))
            ELSE IF in.kind = "add"
            THEN LET r1 == add_stage(write_back(r, upto(in.sec, Len(secs[in.sec]))), in, in.sec)
                 IN IF r1.ctl # "run" THEN r1
                    ELSE write_back(r1, from(in.sec, Len(secs[in.sec]) + 1))
            ELSE write_back(r, Flatten(secs))

\* lifecycle_stages from the sections; flags of names that are no stage go.
flatten(r) ==
    IF r.ctl # "run" THEN r
    ELSE LET stages == Flatten(r.sections)
         IN SetProj(r, [Proj(r) EXCEPT
                !.lifecycle_stages = stages,
                !.lifecycle_changed = SelectSeq(@, LAMBDA kv : kv[1] \in Range(stages))])

reset_all(r, in) ==
    IF r.ctl # "run" \/ in.kind # "reset" THEN r
    ELSE Halt(SetProj([r EXCEPT !.sections = [t \in 1..Len(SECTION_TITLES) |-> << >>]],
                      [Proj(r) EXCEPT !.lifecycle_stages = << >>, !.lifecycle_changed = << >>]),
              "rerun")

\* scoping_done is computed when the run starts, before the step's body.
scoping_status(r, scoping_done) ==
    IF r.ctl # "run" \/ scoping_done THEN r ELSE Notice(r, "Please provide")

step2(r, in, scoping_done) ==
    bottom_nav(scoping_status(reset_all(flatten(stage_editor(
        functional_unit_form(optional_modules(preload_or_seed(r), in), in), in)), in),
        scoping_done), in)

\* ------------------------------------------------------------ Step 3: select factors
\* pick3: the multiselect shows the current selection, or the catalogue's defaults
\* when there is none.
pick3(p, in, dim) ==
    IF in.kind = "select" /\ in.dim = dim THEN in.chosen
    ELSE IF SelectedOf(p, dim) # << >> THEN SelectedOf(p, dim) ELSE DefaultSelected[dim]

step3(r, in, scoping_done) ==
    IF ~scoping_done THEN Halt(Notice(r, "Please complete the Scoping exercise"), "stop")
    ELSE LET p == Proj(r)
             env_sel == pick3(p, in, "Environmental")
             soc_sel == pick3(p, in, "Social")
             eco_sel == pick3(p, in, "Economic")
             r1 == IF \E sel \in {env_sel, soc_sel, eco_sel} : Len(sel) # 3
                   THEN Notice(r, "Please select exactly 3.") ELSE r
             p1 == [p EXCEPT !.selected_factors =
                       [d \in DOMAIN @ \cup Range(Dimensions) |->
                           CASE d = "Environmental" -> env_sel
                             [] d = "Social" -> soc_sel
                             [] d = "Economic" -> eco_sel
                             [] OTHER -> @[d]]]
         IN bottom_nav(SetProj(r1, ensure_grid(p1, env_sel \o soc_sel \o eco_sel)), in)

\* ------------------------------------------------------------ Step 4: scoring grid
three_each(p) == \A i \in 1..Len(Dimensions) : Len(SelectedOf(p, Dimensions[i])) = 3

step4_gate(p) == Len(AllSelected(p)) = 9 /\ three_each(p)

\* One cell of the scoring loop: the "I don't know" box, the slider, the note.
score_cell(fs, in) ==
    LET is_unknown == IF in.kind = "unknown" THEN ~(fs.score = None) ELSE fs.score = None
        current_val == IF fs.score = None THEN 3 ELSE fs.score[1]
        new_val == IF in.kind = "score" /\ ~is_unknown THEN in.value ELSE current_val
    IN FactorScore(IF is_unknown THEN None ELSE Some(new_val),
                   IF in.kind = "note" THEN in.text ELSE fs.note)

\* The cell's widgets cannot be drawn: it is no FactorScore, or its score is outside
\* the slider's range.
cell_fails(fs) == fs.cls # "FactorScore" \/ (fs.score # None /\ fs.score[1] \notin 1..5)

\* The cells of the loop over stages and selected factors, in its order.
cell_keys(p) ==
    LET n == Len(AllSelected(p))
    IN [k \in 1..(Len(p.lifecycle_stages) * n) |->
          <<p.lifecycle_stages[((k - 1) \div n) + 1], AllSelected(p)[((k - 1) % n) + 1]>>]

\* The places of the loop where the run ends with an exception: a cell that fails, or
\* one whose widget keys (stage and factor) were used by an earlier cell.
failing_cells(p, keys) ==
    {k \in DOMAIN keys : \/ \E j \in 1..(k - 1) : keys[j] = keys[k]
                         \/ cell_fails(Get(p.grid, keys[k][1])[keys[k][2]])}

\* The scoring loop. A cell without interaction is written back as it was.
score_cells(r, in) ==
    LET keys == cell_keys(Proj(r))
        failing == failing_cells(Proj(r), keys)
        hit == /\ in.kind \in {"unknown", "score", "note"}
               /\ \E k \in DOMAIN keys : /\ keys[k] = <<in.stage, in.factor>>
                                          /\ \A q \in failing : k < q
        r1 == IF ~hit THEN r
              ELSE SetProj(r, [Proj(r) EXCEPT !.grid = Put(@, in.stage,
                       [Get(@, in.stage) EXCEPT ![in.factor] = score_cell(@, in)])])
    IN IF failing = {} THEN r1 ELSE Halt(Notice(r1, "exception"), "crash")

\* step4 that also fills the grid for the catalogue's default environmental factors.
step4_default_factors(r, in) ==
    IF ~step4_gate(Proj(r)) THEN Halt(Notice(r, "You must select exactly 3 factors"), "stop")
    ELSE LET r1 == SetProj(r, ensure_grid(Proj(r), AllSelected(Proj(r))
                                                   \o DefaultSelected.Environmental))
         IN bottom_nav(score_cells(r1, in), in)

step4(r, in) ==
    IF ~step4_gate(Proj(r)) THEN Halt(Notice(r, "You must select exactly 3 factors"), "stop")
    ELSE LET r1 == SetProj(r, ensure_grid(Proj(r), AllSelected(Proj(r))))
         IN bottom_nav(score_cells(r1, in), in)

\* ------------------------------------------------------------ Step 5: results
step5_gate(p) == Len(AllSelected(p)) = 9

\* min / max over the valid averages: the first of the smallest (largest), in dict order.
worst_stage(avg_stage) ==
    LET valid == SelectSeq(avg_stage, LAMBDA kv : ~IsNaN(kv[2]))
    IN IF valid = << >> THEN None
       ELSE Some(valid[CHOOSE i \in 1..Len(valid) :
                    /\ \A j \in 1..Len(valid) : ~FracLess(valid[j][2], valid[i][2])
                    /\ \A j \in 1..(i - 1) : FracLess(valid[i][2], valid[j][2])][1])

best_stage(avg_stage) ==
    LET valid == SelectSeq(avg_stage, LAMBDA kv : ~IsNaN(kv[2]))
    IN IF valid = << >> THEN None
       ELSE Some(valid[CHOOSE i \in 1..Len(valid) :
                    /\ \A j \in 1..Len(valid) : ~FracLess(valid[i][2], valid[j][2])
                    /\ \A j \in 1..(i - 1) : FracLess(valid[j][2], valid[i][2])][1])

results_export(p) ==
    [project |-> p.name, description |-> p.description, trl |-> p.trl,
     lifecycle_stages |-> p.lifecycle_stages, lifecycle_changed |-> p.lifecycle_changed,
     selected_factors |-> p.selected_factors, grid |-> asdict(p).grid,
     averages |-> [by_stage |-> average_by_stage(p), by_factor |-> average_by_factor(p),
                   overall |-> overall_score(p)]]

\* What Step 5 shows, and what its download button holds.
results(p) ==
    [by_stage |-> average_by_stage(p), by_factor |-> average_by_factor(p),
     overall |-> overall_score(p),
     worst |-> worst_stage(average_by_stage(p)), best |-> best_stage(average_by_stage(p)),
     export |-> results_export(p)]

step5(r, in) ==
    IF ~step5_gate(Proj(r)) THEN Halt(Notice(r, "Complete Steps 3-4 first."), "stop")
    ELSE LET p == ensure_grid(Proj(r), AllSelected(Proj(r)))
         IN bottom_nav([SetProj(r, p) EXCEPT !.view = Some(results(p))], in)

\* ------------------------------------------------------------ one run of the script
\* Sidebar (the step radio, the export button's data), the landing page while no
\* project is active, then the body of the current step.
Script(r, in) ==
    IF r.active_project = None THEN render_landing([r EXCEPT !.payload = None], in)
    ELSE LET r1 == [r EXCEPT !.step_idx = IF in.kind = "goto" THEN Some(in.step) ELSE @,
                             !.payload = Some(asdict(Proj(r)))]
             scoping_done == scoping_is_done(Proj(r1))
             step == r1.step_idx[1]
         IN CASE step = 0 -> bottom_nav(r1, in)
              [] step = 1 -> step2(r1, in, scoping_done)
              [] step = 2 -> step3(r1, in, scoping_done)
              [] step = 3 -> step4(r1, in)
              [] step = 4 -> step5(r1, in)

\* st.rerun() starts the script again, without interaction.
RECURSIVE Run(_, _)
rerun(a) ==
    IF a.ctl = "rerun" THEN Run([a EXCEPT !.ctl = "run", !.notices = {}, !.view = None], NoInput)
    ELSE a

Run(r, in) == rerun(Script(r, in))

Becomes(r) ==
    /\ projects' = r.projects
    /\ active_project' = r.active_project
    /\ step_idx' = r.step_idx
    /\ sections' = r.sections
    /\ seeded_canon_labels' = r.seeded_canon_labels
    /\ inc_a0' = r.inc_a0
    /\ inc_d' = r.inc_d
    /\ fu_draft' = r.fu_draft
    /\ payload' = r.payload
    /\ notices' = r.notices
    /\ view' = r.view

\* ------------------------------------------------------------ uploaded files
\* An uploaded file: whether json.load accepts its text, and the object it holds.
Upload(data) == [text_ok |-> TRUE, data |-> data]

NotJson == [text_ok |-> FALSE, data |-> << >>]

Default9 == DefaultSelected.Environmental \o DefaultSelected.Social \o DefaultSelected.Economic

JsonCell(score, note) == DictCell([score |-> score, note |-> note])

\* A selection that differs from the catalogue's defaults in one factor.
DemoSelected == [DefaultSelected EXCEPT
                    !.Environmental = <<"Climate change", "Resource use, fossils", "Water use">>]

Demo9 == DemoSelected.Environmental \o DemoSelected.Social \o DemoSelected.Economic

\* A row of nine cells, all null but the one given for "Climate change".
DemoRow(cell) == [f \in Range(Demo9) |-> IF f = "Climate change" THEN cell ELSE JsonCell(None, "")]

\* A project as the sidebar exports it: two stages of one section with equal scores,
\* and the row of a stage that was removed, with a factor that was deselected.
DemoDoc ==
    [name |-> "Demo", description |-> "", trl |-> 4, scoping_notes |-> "",
     lifecycle_stages |-> <<CODE_TO_LABEL["B1"], CODE_TO_LABEL["B2"]>>,
     lifecycle_changed |-> << <<CODE_TO_LABEL["B1"], TRUE>>, <<CODE_TO_LABEL["B2"], FALSE>> >>,
     selected_factors |-> DemoSelected,
     grid |-> << <<CODE_TO_LABEL["B1"], DemoRow(JsonCell(Some(4), "why"))>>,
                 <<CODE_TO_LABEL["C4"], ("Land Use" :> JsonCell(Some(5), "left over"))>>,
                 <<CODE_TO_LABEL["B2"], DemoRow(JsonCell(Some(4), ""))>> >>,
     core_function |-> "move", functional_unit |-> "1 km"]

\* A document of an earlier schema: no core_function, no functional_unit, cells
\* without score or without note.
LegacyDoc ==
    [name |-> "Legacy",
     lifecycle_stages |-> <<CODE_TO_LABEL["A1"]>>,
     lifecycle_changed |-> << <<CODE_TO_LABEL["A1"], TRUE>> >>,
     selected_factors |-> DefaultSelected,
     grid |-> << <<CODE_TO_LABEL["A1"],
                   ("Climate change" :> DictCell([note |-> "old"]))
                   @@ ("Land Use" :> DictCell([score |-> Some(2)]))>> >>]

NoNameDoc == [description |-> "no name", lifecycle_stages |-> <<CODE_TO_LABEL["A1"]>>]

ExtraKeyDoc == [name |-> "Extra", averages |-> << >>]

BadCellDoc ==
    [name |-> "BadCell", lifecycle_stages |-> <<CODE_TO_LABEL["A1"]>>,
     grid |-> << <<CODE_TO_LABEL["A1"], ("Climate change" :> DictCell([value |-> 3]))>> >>]

\* A project whose stages fill the editor: MAX_TOTAL of them, nothing scored.
FullDoc ==
    [name |-> "Full", functional_unit |-> "1 m2",
     lifecycle_stages |-> [i \in 1..MAX_TOTAL |-> CODE_TO_LABEL[Codes[i + 1]]]]

\* The export of a project to which the user gave a stage a name of their own.
FreeTextDoc ==
    [name |-> "Free text", functional_unit |-> "1 m2",
     lifecycle_stages |-> <<CODE_TO_LABEL["A1"], "Use Phase">>,
     lifecycle_changed |-> << <<"Use Phase", TRUE>> >>]

\* A document written by hand: a score the slider does not have.
OutOfRangeDoc ==
    [name |-> "Out of range", functional_unit |-> "1 m2",
     lifecycle_stages |-> <<CODE_TO_LABEL["A1"]>>,
     selected_factors |-> DefaultSelected,
     grid |-> << <<CODE_TO_LABEL["A1"], ("Raw material cost" :> JsonCell(Some(7), ""))>> >>]

\* The export of a project with four, three and two factors selected: nine in all.
UnevenDoc ==
    [name |-> "Uneven", functional_unit |-> "1 m2",
     lifecycle_stages |-> <<CODE_TO_LABEL["A1"]>>,
     selected_factors |->
        [DefaultSelected EXCEPT
            !.Environmental = <<"Climate change", "Resource use, fossils", "Land Use", "Water use">>,
            !.Economic = <<"Complexity of production process", "Raw material cost">>]]

Uploads == {Upload(DemoDoc), Upload(LegacyDoc), Upload(FullDoc), Upload(FreeTextDoc),
            Upload(OutOfRangeDoc), Upload(UnevenDoc), Upload(NoNameDoc), Upload(ExtraKeyDoc),
            Upload(BadCellDoc), NotJson}

\* Documents for the aggregation engine: up to MaxAggStages stages, each with cells
\* for the first MaxAggFactors selected factors; the first stage's scores are unknown,
\* 2 or 4, the later stages' unknown or 2.  A document may carry the row, scored or
\* empty, of a stage that is not (or no longer) one of its stages.
AggScores == {None, Some(2), Some(4)}

LaterScores == {None, Some(2)}

AggRow(scores) == [f \in {Default9[j] : j \in 1..MaxAggFactors} |->
                     JsonCell(scores[CHOOSE j \in 1..MaxAggFactors : Default9[j] = f], "")]

StaleRows == {<< >>,
              << <<CODE_TO_LABEL["C4"], ("Water use" :> JsonCell(Some(5), "left over"))>> >>,
              << <<CODE_TO_LABEL["C4"], << >> >> >>}

AggDoc(rows, stale) ==
    [name |-> "Agg", functional_unit |-> "1 km",
     lifecycle_stages |-> [i \in 1..Len(rows) |-> CODE_TO_LABEL[Codes[i + 1]]],
     selected_factors |-> DefaultSelected,
     grid |-> stale \o [i \in 1..Len(rows) |-> <<CODE_TO_LABEL[Codes[i + 1]], AggRow(rows[i])>>]]

AggRows ==
    {<< >>} \cup
    UNION {{[i \in 1..k |-> IF i = 1 THEN a ELSE b[i]] :
               a \in [1..MaxAggFactors -> AggScores],
               b \in [2..k -> [1..MaxAggFactors -> LaterScores]]} : k \in 1..MaxAggStages}

AggUploads == {Upload(AggDoc(rows, stale)) : rows \in AggRows, stale \in StaleRows}

\* ------------------------------------------------------------ what the user types
StageNameInputs == {"Use Phase", CODE_TO_LABEL["B2"], " "}

FunctionalUnitInputs == {" ", "1 km"}

ScoreInputs == {2, 5}

NoteInputs == {"because"}

SelectionInputs ==
    [Environmental |-> {<<"Climate change", "Resource use, fossils", "Water use">>,
                        <<"Climate change", "Resource use, fossils", "Land Use", "Water use">>},
     Social |-> {},
     Economic |-> {<<"Complexity of production process", "Raw material cost">>}]

EditRows(t) == 1..Min(Len(sections[t]), MaxEditRow)

\* ------------------------------------------------------------ initial state and actions
Init ==
    /\ projects = << >>
    /\ active_project = None
    /\ step_idx = None
    /\ sections = [t \in 1..Len(SECTION_TITLES) |-> << >>]
    /\ seeded_canon_labels = FALSE
    /\ inc_a0 = FALSE
    /\ inc_d = FALSE
    /\ fu_draft = None
    /\ payload = None
    /\ notices = {}
    /\ view = None
    /\ file = None
    /\ edits = 0

Active == active_project # None

AtStep(k) == Active /\ step_idx = Some(k)

\* A widget can be used only when the last run drew it. A run that ended with an
\* exception or with st.stop() drew nothing after that point: Step 2's preload comes
\* before all of Step 2's widgets, the gates of Steps 3 to 5 before all of theirs.
Crashed == "exception" \in notices

Stopped ==
    notices \cap {"Please complete the Scoping exercise", "You must select exactly 3 factors",
                  "Complete Steps 3-4 first."} # {}

Drawn(k) == AtStep(k) /\ ~Crashed /\ ~Stopped

Interact(in) == Becomes(Run(Cur, in)) /\ UNCHANGED <<file, edits>>

Edit(in) ==
    edits < MaxEdits /\ Becomes(Run(Cur, in)) /\ edits' = edits + 1 /\ UNCHANGED file

\* A session starts from the landing page. The user who kept a file from a download
\* uploads that file; the user without one creates a project or uploads a document.
CreateProject == ~Active /\ file = None /\ Interact([kind |-> "create"])

ImportProject ==
    /\ ~Active
    /\ file = None
    /\ \E u \in Uploads : Interact([kind |-> "import", uploaded |-> u])

ReimportProject == ~Active /\ file # None /\ Interact([kind |-> "import", uploaded |-> file[1]])

GotoStep ==
    /\ Active
    /\ \E k \in 0..(Len(WORKFLOW_STEPS) - 1) :
          k # step_idx[1] /\ Interact([kind |-> "goto", step |-> k])

\* bottom_nav is the last call of every step: its buttons are there when the run got
\* that far. Back is disabled on the first step, Next on the last.
Back == \E k \in 1..(Len(WORKFLOW_STEPS) - 1) : Drawn(k) /\ Interact([kind |-> "back"])

NextStep == \E k \in 0..(Len(WORKFLOW_STEPS) - 2) : Drawn(k) /\ Interact([kind |-> "next"])

ToggleA0 == Drawn(1) /\ Edit([kind |-> "inc_a0"])

ToggleD == Drawn(1) /\ Edit([kind |-> "inc_d"])

TypeFunctionalUnit ==
    Drawn(1) /\ \E text \in FunctionalUnitInputs : Edit([kind |-> "fu_type", text |-> text])

SaveFunctionalUnit == Drawn(1) /\ Edit([kind |-> "fu_save"])

RenameStage ==
    /\ Drawn(1)
    /\ \E t \in 1..Len(SECTION_TITLES) : \E i \in EditRows(t) :
          \E name \in StageNameInputs \ {sections[t][i]} :
             Edit([kind |-> "rename", sec |-> t, idx |-> i, name |-> name])

FlagStage ==
    /\ Drawn(1)
    /\ \E t \in 1..Len(SECTION_TITLES) : \E i \in EditRows(t) :
          Edit([kind |-> "flag", sec |-> t, idx |-> i])

MoveStageUp ==
    /\ Drawn(1)
    /\ \E t \in 1..Len(SECTION_TITLES) : \E i \in EditRows(t) :
          Edit([kind |-> "up", sec |-> t, idx |-> i])

MoveStageDown ==
    /\ Drawn(1)
    /\ \E t \in 1..Len(SECTION_TITLES) : \E i \in EditRows(t) :
          Edit([kind |-> "down", sec |-> t, idx |-> i])

DeleteStage ==
    /\ Drawn(1)
    /\ \E t \in 1..Len(SECTION_TITLES) : \E i \in EditRows(t) :
          Edit([kind |-> "delete", sec |-> t, idx |-> i])

AddStage ==
    /\ Drawn(1)
    /\ \E t \in 1..Len(SECTION_TITLES) : \E name \in StageNameInputs : \E flag \in BOOLEAN :
          Edit([kind |-> "add", sec |-> t, name |-> name, flag |-> flag])

ResetStages == Drawn(1) /\ Edit([kind |-> "reset"])

SelectFactors ==
    /\ Drawn(2)
    /\ \E i \in 1..Len(Dimensions) : \E chosen \in SelectionInputs[Dimensions[i]] :
          Edit([kind |-> "select", dim |-> Dimensions[i], chosen |-> chosen])

\* The cells the user edits: the first stages, the first factors of each dimension,
\* as far as the scoring loop drew them (it stops at the first cell that fails).
DrawnCells ==
    LET keys == cell_keys(Proj(Cur))
        failing == failing_cells(Proj(Cur), keys)
    IN {keys[k] : k \in {j \in DOMAIN keys : \A q \in failing : j < q}}

EditCells ==
    LET p == Proj(Cur)
        drawn == DrawnCells
    IN {c \in {<<p.lifecycle_stages[i], SelectedOf(p, Dimensions[d])[j]>> :
                  i \in 1..Min(Len(p.lifecycle_stages), MaxEditRow),
                  d \in 1..Len(Dimensions), j \in 1..MaxEditFactor} : c \in drawn}

Scoring == AtStep(3) /\ ~Stopped

ToggleUnknown ==
    /\ Scoring
    /\ \E c \in EditCells : Edit([kind |-> "unknown", stage |-> c[1], factor |-> c[2]])

SetScore ==
    /\ Scoring
    /\ \E c \in EditCells : \E v \in ScoreInputs :
          Edit([kind |-> "score", stage |-> c[1], factor |-> c[2], value |-> v])

SetNote ==
    /\ Scoring
    /\ \E c \in EditCells : \E text \in NoteInputs :
          Edit([kind |-> "note", stage |-> c[1], factor |-> c[2], text |-> text])

\* The sidebar's export button: the browser gets what the last run put behind it,
\* and the click runs the script again.
ExportProject ==
    /\ payload # None
    /\ file' = Some(Upload(payload[1]))
    /\ Becomes(Run(Cur, NoInput))
    /\ UNCHANGED edits

\* Step 5's "Download results JSON".
DownloadResults ==
    /\ view # None
    /\ file' = Some(Upload(view[1].export))
    /\ Becomes(Run(Cur, NoInput))
    /\ UNCHANGED edits

\* A new session that finds the collection of the session before.
NewSession_keeping_projects ==
    /\ Active
    /\ projects' = projects
    /\ active_project' = None
    /\ step_idx' = None
    /\ sections' = [t \in 1..Len(SECTION_TITLES) |-> << >>]
    /\ seeded_canon_labels' = FALSE
    /\ inc_a0' = FALSE
    /\ inc_d' = FALSE
    /\ fu_draft' = None
    /\ payload' = None
    /\ notices' = {}
    /\ view' = None
    /\ UNCHANGED <<file, edits>>

\* A new browser session: st.session_state starts empty; the user keeps the file.
NewSession ==
    /\ Active
    /\ projects' = << >>
    /\ active_project' = None
    /\ step_idx' = None
    /\ sections' = [t \in 1..Len(SECTION_TITLES) |-> << >>]
    /\ seeded_canon_labels' = FALSE
    /\ inc_a0' = FALSE
    /\ inc_d' = FALSE
    /\ fu_draft' = None
    /\ payload' = None
    /\ notices' = {}
    /\ view' = None
    /\ UNCHANGED <<file, edits>>

Next ==
    \/ CreateProject
    \/ ImportProject
    \/ ReimportProject
    \/ GotoStep
    \/ Back
    \/ NextStep
    \/ ToggleA0
    \/ ToggleD
    \/ TypeFunctionalUnit
    \/ SaveFunctionalUnit
    \/ RenameStage
    \/ FlagStage
    \/ MoveStageUp
    \/ MoveStageDown
    \/ DeleteStage
    \/ AddStage
    \/ ResetStages
    \/ SelectFactors
    \/ ToggleUnknown
    \/ SetScore
    \/ SetNote
    \/ ExportProject
    \/ DownloadResults
    \/ NewSession

Spec == Init /\ [][Next]_vars

\* ------------------------------------------------------------ the aggregation engine
\* The runs that exercise average_by_stage, average_by_factor and overall_score: a
\* document is imported and the user walks through the steps; Step 5 shows the results.
ImportAgg ==
    /\ ~Active
    /\ \E u \in AggUploads : Interact([kind |-> "import", uploaded |-> u])

NextAgg ==
    \/ ImportAgg
    \/ GotoStep
    \/ Back
    \/ NextStep
    \/ NewSession

SpecAgg == Init /\ [][NextAgg]_vars

\* ------------------------------------------------------------ the interpretation table
\* interp_label on its own: a value is given, the label is looked up and shown.
InterpValues ==
    {[n |-> 0, d |-> 0, tiny |-> 0]} \cup {[n |-> Frac(k, d).n, d |-> Frac(k, d).d, tiny |-> t] :
                   k \in 0..(6 * MaxInterpDen), d \in 1..MaxInterpDen, t \in {-1, 0, 1}}

InitInterp ==
    /\ projects = << >>
    /\ active_project = None
    /\ step_idx = None
    /\ sections = [t \in 1..Len(SECTION_TITLES) |-> << >>]
    /\ seeded_canon_labels = FALSE
    /\ inc_a0 = FALSE
    /\ inc_d = FALSE
    /\ fu_draft = None
    /\ payload = None
    /\ notices = {}
    /\ \E value \in InterpValues : view = Some([value |-> value, label |-> None])
    /\ file = None
    /\ edits = 0

Interpret ==
    /\ view[1].label = None
    /\ view' = Some([view[1] EXCEPT !.label = Some(interp_label(view[1].value))])
    /\ UNCHANGED <<projects, active_project, step_idx, sections, seeded_canon_labels,
                   inc_a0, inc_d, fu_draft, payload, notices, file, edits>>

NextInterp == Interpret

SpecInterp == InitInterp /\ [][NextInterp]_vars

\* ------------------------------------------------------------ ensure_grid on its own
\* ensure_grid applied to a project, and applied again to what it gave: the stage
\* list has none, one or two stages (in either order, or one twice), the grid a row or
\* none for each of the two stages, a row's cells are unknown or scored, and the factor
\* list is any list without repetition.
GridStageNames == <<CODE_TO_LABEL["A1"], CODE_TO_LABEL["A2"]>>

GridFactorSet == {Default9[j] : j \in 1..MaxGridFactors}

GridCellValues == {NewFactorScore, FactorScore(Some(4), "why")}

GridRowMaps == UNION {[D -> GridCellValues] : D \in SUBSET GridFactorSet}

GridRowsOf(stage) == {<< >>} \cup {<< <<stage, m>> >> : m \in GridRowMaps}

GridInputs ==
    UNION {{a \o b, b \o a} : a \in GridRowsOf(GridStageNames[1]), b \in GridRowsOf(GridStageNames[2])}

StageListInputs ==
    {<< >>, <<GridStageNames[1]>>, <<GridStageNames[2]>>, GridStageNames,
     <<GridStageNames[2], GridStageNames[1]>>, <<GridStageNames[1], GridStageNames[1]>>}

FactorListInputs ==
    {fl \in UNION {[1..n -> GridFactorSet] : n \in 0..MaxGridFactors} :
        \A i, j \in 1..Len(fl) : fl[i] = fl[j] => i = j}

InitGrid ==
    /\ projects = << >>
    /\ active_project = None
    /\ step_idx = None
    /\ sections = [t \in 1..Len(SECTION_TITLES) |-> << >>]
    /\ seeded_canon_labels = FALSE
    /\ inc_a0 = FALSE
    /\ inc_d = FALSE
    /\ fu_draft = None
    /\ payload = None
    /\ notices = {}
    /\ \E stages \in StageListInputs : \E grid \in GridInputs : \E fl \in FactorListInputs :
          view = Some([given |-> Project([name |-> "Grid", lifecycle_stages |-> stages,
                                          grid |-> grid]),
                       all_factors |-> fl, once |-> None, twice |-> None])
    /\ file = None
    /\ edits = 0

EnsureGrid ==
    /\ view[1].once = None
    /\ view' = Some([view[1] EXCEPT !.once = Some(ensure_grid(view[1].given, view[1].all_factors))])
    /\ UNCHANGED <<projects, active_project, step_idx, sections, seeded_canon_labels,
                   inc_a0, inc_d, fu_draft, payload, notices, file, edits>>

EnsureGridAgain ==
    /\ view[1].once # None
    /\ view[1].twice = None
    /\ view' = Some([view[1] EXCEPT !.twice = Some(ensure_grid(view[1].once[1], view[1].all_factors))])
    /\ UNCHANGED <<projects, active_project, step_idx, sections, seeded_canon_labels,
                   inc_a0, inc_d, fu_draft, payload, notices, file, edits>>

NextGrid == EnsureGrid \/ EnsureGridAgain

SpecGrid == InitGrid /\ [][NextGrid]_vars

\* ------------------------------------------------------------ the stage editor
\* Sessions that stay with the stage editor: a new project, Step 2 with its seeded
\* stages, and up to MaxScopingEdits renames and deletes, one per run.
ScopingRename ==
    /\ Drawn(1)
    /\ edits < MaxScopingEdits
    /\ \E t \in 1..Len(SECTION_TITLES) : \E i \in EditRows(t) :
          \E name \in StageNameInputs \ {sections[t][i]} :
             /\ Becomes(Run(Cur, [kind |-> "rename", sec |-> t, idx |-> i, name |-> name]))
             /\ edits' = edits + 1
             /\ UNCHANGED file

ScopingDelete ==
    /\ Drawn(1)
    /\ edits < MaxScopingEdits
    /\ \E t \in 1..Len(SECTION_TITLES) : \E i \in EditRows(t) :
          /\ Becomes(Run(Cur, [kind |-> "delete", sec |-> t, idx |-> i]))
          /\ edits' = edits + 1
          /\ UNCHANGED file

NextScoping ==
    \/ CreateProject
    \/ GotoStep
    \/ ScopingRename
    \/ ScopingDelete

SpecScoping == Init /\ [][NextScoping]_vars

\* ------------------------------------------------------------ properties
ActiveProject == projects[active_project[1]]

\* Step 5 has shown the results of the active project's grid.
ResultsShown == view # None

CellKnown(fs) == fs.cls = "FactorScore" /\ fs.score # None

KnownIn(facs) == {f \in DOMAIN facs : CellKnown(facs[f])}

RECURSIVE ScoreSum(_, _)
ScoreSum(facs, S) ==
    IF S = {} THEN 0
    ELSE LET f == CHOOSE x \in S : TRUE IN facs[f].score[1] + ScoreSum(facs, S \ {f})

\* x is the number total / count.
IsQuotient(x, total, count) == x.d # 0 /\ x.n * count = total * x.d

\* The rows of a grid with a known score, and the exact mean of a row.
ValidRows(g) == {i \in 1..Len(g) : KnownIn(g[i][2]) # {}}

RowMean(g, i) == Frac(ScoreSum(g[i][2], KnownIn(g[i][2])), Cardinality(KnownIn(g[i][2])))

RECURSIVE RowMeanSum(_, _)
RowMeanSum(g, I) ==
    IF I = {} THEN Frac(0, 1)
    ELSE LET i == CHOOSE x \in I : TRUE IN FracAdd(RowMean(g, i), RowMeanSum(g, I \ {i}))

\* The exact mean of the means of the rows I (I not empty).
MeanOfRows(g, I) == LET t == RowMeanSum(g, I) IN Frac(t.n, t.d * Cardinality(I))

\* |x - y| <= 1/200: y is x to two decimals.
Within200th(x, y) ==
    LET diff == x.n * y.d - y.n * x.d
    IN 200 * (IF diff < 0 THEN -diff ELSE diff) <= x.d * y.d

\* C1: average_by_stage has one entry per grid row, in the grid's order, and the entry
\* of a row with known scores is the sum of the known scores divided by their number:
\* unknown cells are in neither.
C1_StageAverageOverKnownCells ==
    ResultsShown =>
        LET g == ActiveProject.grid
            shown == view[1].by_stage
        IN /\ Keys(shown) = Keys(g)
           /\ \A i \in ValidRows(g) :
                 IsQuotient(shown[i][2], ScoreSum(g[i][2], KnownIn(g[i][2])),
                            Cardinality(KnownIn(g[i][2])))

\* C1's case: a row with scores 4 and 2 and unknown cells, whose average is shown as 3.
C1_Witness ==
    /\ ResultsShown
    /\ \E i \in 1..Len(ActiveProject.grid) :
          LET facs == ActiveProject.grid[i][2]
          IN /\ Cardinality(KnownIn(facs)) = 2
             /\ {facs[f].score[1] : f \in KnownIn(facs)} = {2, 4}
             /\ DOMAIN facs # KnownIn(facs)
             /\ view[1].by_stage[i][2] = [n |-> 3, d |-> 1]

\* C2: a grid row without known scores (all cells unknown, or no cells) gets NaN; it
\* is neither the worst nor the best stage shown; the overall score is, to two
\* decimals, the mean over the other rows only; and with no valid row there is no
\* worst stage, no best stage and no overall score.
C2_UnknownStageIsNaNAndExcluded ==
    ResultsShown =>
        LET g == ActiveProject.grid
            v == view[1]
        IN /\ \A i \in (1..Len(g)) \ ValidRows(g) :
                 /\ IsNaN(v.by_stage[i][2])
                 /\ v.worst # Some(g[i][1])
                 /\ v.best # Some(g[i][1])
           /\ ValidRows(g) # {} =>
                 /\ v.overall # None
                 /\ Within200th(MeanOfRows(g, ValidRows(g)), v.overall[1])
                 /\ v.worst # None /\ v.best # None
           /\ ValidRows(g) = {} => v.worst = None /\ v.best = None /\ v.overall = None

\* C2's case: the results of a grid with a row that has cells, all unknown, beside a
\* row with known scores.
C2_Witness ==
    /\ ResultsShown
    /\ ValidRows(ActiveProject.grid) # {}
    /\ \E i \in (1..Len(ActiveProject.grid)) \ ValidRows(ActiveProject.grid) :
          /\ DOMAIN ActiveProject.grid[i][2] # {}
          /\ IsNaN(view[1].by_stage[i][2])

\* C2's other case: no row has a known score, and nothing is reported.
C2_WitnessNoValidStage ==
    /\ ResultsShown
    /\ ActiveProject.grid # << >>
    /\ ValidRows(ActiveProject.grid) = {}
    /\ view[1].worst = None

\* C3: the overall score is the mean of the valid averages of the project's stages,
\* and there is none exactly when no stage of the project has a known score.
C3_OverallIsMeanOfStageAverages ==
    ResultsShown =>
        LET g == ActiveProject.grid
            valid == {i \in ValidRows(g) : g[i][1] \in Range(ActiveProject.lifecycle_stages)}
        IN /\ view[1].overall = None <=> valid = {}
           /\ valid # {} => view[1].overall = Some(MeanOfRows(g, valid))

\* The rows in which factor f has a known score, and the sum of those scores.
RowsKnowing(g, f) == {i \in 1..Len(g) : f \in KnownIn(g[i][2])}

RECURSIVE FactorSum(_, _, _)
FactorSum(g, f, I) ==
    IF I = {} THEN 0
    ELSE LET i == CHOOSE x \in I : TRUE IN g[i][2][f].score[1] + FactorSum(g, f, I \ {i})

\* C4: average_by_factor has a key for a factor exactly when some grid row holds a
\* known score for it, and the value is the sum of the factor's known scores over all
\* rows divided by their number (so never NaN).
C4_FactorAverageKeysAreKnownFactors ==
    ResultsShown =>
        LET g == ActiveProject.grid
            shown == view[1].by_factor
        IN /\ DOMAIN shown = {f \in UNION {DOMAIN g[i][2] : i \in 1..Len(g)} :
                                 RowsKnowing(g, f) # {}}
           /\ \A f \in DOMAIN shown :
                 IsQuotient(shown[f], FactorSum(g, f, RowsKnowing(g, f)),
                            Cardinality(RowsKnowing(g, f)))

\* C4's case: a factor known in one row and unknown in another has a key, while a
\* factor of the grid without known score has none.
C4_Witness ==
    /\ ResultsShown
    /\ \E f \in DOMAIN view[1].by_factor :
          /\ RowsKnowing(ActiveProject.grid, f) # {}
          /\ \E i \in 1..Len(ActiveProject.grid) :
                /\ f \in DOMAIN ActiveProject.grid[i][2]
                /\ i \notin RowsKnowing(ActiveProject.grid, f)
    /\ \E i \in 1..Len(ActiveProject.grid) :
          \E f \in DOMAIN ActiveProject.grid[i][2] : f \notin DOMAIN view[1].by_factor

\* What the import makes of a document it accepts.
Imported(doc) == coerce_grid(Project(doc))

\* Projects p and q have the same ordered stage list, flags, factor selections, and
\* grid: the same rows, and in each row the same cells with the same score and note.
SameProjectData(p, q) ==
    /\ q.lifecycle_stages = p.lifecycle_stages
    /\ q.lifecycle_changed = p.lifecycle_changed
    /\ q.selected_factors = p.selected_factors
    /\ Keys(q.grid) = Keys(p.grid)
    /\ \A i \in 1..Len(p.grid) :
          /\ DOMAIN q.grid[i][2] = DOMAIN p.grid[i][2]
          /\ \A f \in DOMAIN p.grid[i][2] :
                /\ q.grid[i][2][f].cls = "FactorScore"
                /\ q.grid[i][2][f].score = p.grid[i][2][f].score
                /\ q.grid[i][2][f].note = p.grid[i][2][f].note

\* C5: for every project the program holds, the document the sidebar exports for it
\* (asdict) is accepted by the import, and the imported project has the same stages
\* in order, flags, factor selections, and the same score (unknown included) and note
\* in every cell.
C5_ExportImportRoundTrip ==
    Active =>
        /\ import_ok(Upload(asdict(ActiveProject)))
        /\ SameProjectData(ActiveProject, Imported(asdict(ActiveProject)))

\* C5's case: the active project is the import of the sidebar export the user kept;
\* it has flags, a known score with a note and an unknown score.
C5_Witness ==
    /\ Active
    /\ file # None
    /\ "name" \in DOMAIN file[1].data
    /\ ActiveProject = Imported(file[1].data)
    /\ \E i \in 1..Len(ActiveProject.lifecycle_changed) : ActiveProject.lifecycle_changed[i][2]
    /\ \E i \in 1..Len(ActiveProject.grid) : \E f, h \in DOMAIN ActiveProject.grid[i][2] :
          /\ ActiveProject.grid[i][2][f].score # None
          /\ ActiveProject.grid[i][2][f].note # ""
          /\ ActiveProject.grid[i][2][h].score = None

\* The step is the user's editing interaction in, and the run it starts.
Does(in) == edits' = edits + 1 /\ file' = file /\ Becomes(Run(Cur, in))

\* Nobody uses the name: no row of the editor, no stage, no flag, no grid row.
Unused(name) ==
    /\ \A t \in 1..Len(SECTION_TITLES) : name \notin Range(sections[t])
    /\ name \notin Range(ActiveProject.lifecycle_stages)
    /\ ~Has(ActiveProject.lifecycle_changed, name)
    /\ ~Has(ActiveProject.grid, name)

\* Project q is project p with stage old renamed to new: flag and grid row moved.
Renamed(p, q, old, new) ==
    /\ old \notin Range(q.lifecycle_stages)
    /\ new \in Range(q.lifecycle_stages)
    /\ ~Has(q.lifecycle_changed, old)
    /\ ~Has(q.grid, old)
    /\ Has(p.lifecycle_changed, old) =>
          Has(q.lifecycle_changed, new)
          /\ Get(q.lifecycle_changed, new) = Get(p.lifecycle_changed, old)
    /\ Has(p.grid, old) => Has(q.grid, new) /\ Get(q.grid, new) = Get(p.grid, old)

\* C6: renaming the stage of an editor row to a new, unused name leaves the old name
\* in none of stage list, flags and grid, and the new name carries the old name's flag
\* and grid row, cell for cell.
C6_RenameMovesFlagAndRow ==
    [][\A t \in 1..Len(SECTION_TITLES) : \A i \in 1..Len(sections[t]) :
          \A name \in StageNameInputs :
             (/\ Drawn(1)
              /\ Strip(name) # ""
              /\ Unused(name)
              /\ Does([kind |-> "rename", sec |-> t, idx |-> i, name |-> name]))
             => Renamed(ActiveProject, ActiveProject', sections[t][i], name)]_vars

CellsOf(p) ==
    UNION {{<<p.grid[i][1], f, p.grid[i][2][f]>> : f \in DOMAIN p.grid[i][2]} :
              i \in 1..Len(p.grid)}

UnselectedCells(p) == {c \in CellsOf(p) : c[2] \notin Range(AllSelected(p))}

UploadsNow == Uploads \cup Range(file)

\* Every cell of the document's grid is an object with no keys but score and note.
CellsWellFormed(data) ==
    "grid" \in DOMAIN data =>
        \A i \in 1..Len(data.grid) : \A f \in DOMAIN data.grid[i][2] :
            /\ data.grid[i][2][f].cls = "dict"
            /\ DOMAIN data.grid[i][2][f].items \subseteq {"score", "note"}

\* The document is a project's: it parses, it has a name, its keys are Project's
\* fields and its cells are well formed.
WellFormed(u) ==
    /\ u.text_ok
    /\ "name" \in DOMAIN u.data
    /\ DOMAIN u.data \subseteq ProjectFields
    /\ CellsWellFormed(u.data)

Imports(u) == ~Active /\ Becomes(Run(Cur, [kind |-> "import", uploaded |-> u]))

\* C9: the import of a well-formed document without functional_unit or without
\* core_function succeeds: the project becomes the active one, and the field the
\* document lacks is the empty string.
C9_ImportWithoutFunctionalUnit ==
    [][\A u \in UploadsNow :
          (/\ WellFormed(u)
           /\ {"functional_unit", "core_function"} \ DOMAIN u.data # {}
           /\ Imports(u))
          => /\ Active'
             /\ active_project' = Some(u.data.name)
             /\ "Could not import" \notin notices'
             /\ \A f \in {"functional_unit", "core_function"} \ DOMAIN u.data :
                   ActiveProject'[f] = ""]_vars

\* C9's case: the active project is the import of the document that has neither field.
C9_Witness ==
    /\ Active
    /\ "functional_unit" \notin DOMAIN LegacyDoc
    /\ "core_function" \notin DOMAIN LegacyDoc
    /\ ActiveProject = Imported(LegacyDoc)
    /\ ActiveProject.functional_unit = ""
    /\ ActiveProject.core_function = ""

\* C10: the import of a document that does not parse, has no name, has a key that is
\* no field of Project, or has a cell that cannot be coerced, shows the error and
\* leaves projects, the active project and the step as they were.
C10_FailedImportChangesNothing ==
    [][\A u \in UploadsNow :
          (~WellFormed(u) /\ Imports(u))
          => /\ "Could not import" \in notices'
             /\ projects' = projects
             /\ active_project' = active_project
             /\ step_idx' = step_idx]_vars

\* C10's case: an import has failed; the landing page shows the error.
C10_Witness == ~Active /\ "Could not import" \in notices /\ projects = << >>

\* The label interp_label gave for the value on show.
LabelShown == view # None /\ "label" \in DOMAIN view[1] /\ view[1].label # None

\* v <= upper, exactly; v <= upper + 1e-9 (an offset of 5e-10 is within that).
AtMost(v, upper) == ~IsNaN(v) /\ (v.n < upper * v.d \/ (v.n = upper * v.d /\ Tiny(v) <= 0))

AtMostAbout(v, upper) == ~IsNaN(v) /\ (v.n < upper * v.d \/ v.n = upper * v.d)

\* 1 <= v <= 5
InBands(v) == ~IsNaN(v) /\ (v.n > v.d \/ (v.n = v.d /\ Tiny(v) >= 0)) /\ AtMost(v, 5)

BandOf(label) == CHOOSE i \in 1..Len(INTERPRETATION) : INTERPRETATION[i].label = label

\* C11 as stated: the label is that of the first band whose upper bound is >= v, and
\* "n/a" when there is none; every v in [1, 5] has a band; 1, 2 and 3 have the first,
\* the second and the third.
C11_FirstBandAtLeastValue ==
    LabelShown =>
        LET v == view[1].value
            label == view[1].label[1]
        IN /\ label = "n/a" <=> \A i \in 1..Len(INTERPRETATION) : ~AtMost(v, INTERPRETATION[i].upper)
           /\ label # "n/a" =>
                 /\ AtMost(v, INTERPRETATION[BandOf(label)].upper)
                 /\ \A j \in 1..(BandOf(label) - 1) : ~AtMost(v, INTERPRETATION[j].upper)
           /\ InBands(v) => label # "n/a"
           /\ \A b \in 1..3 : (v.n = b /\ v.d = 1 /\ Tiny(v) = 0) => label = INTERPRETATION[b].label

\* C11, with the tolerance of the comparison: the label is that of the first band
\* whose upper bound plus 1e-9 is >= v, and "n/a" when there is none (NaN, or a value
\* above 5 + 1e-9); every v in [1, 5] has a band; 1, 2 and 3 have the first, the second
\* and the third.
C11_FirstBandWithinTolerance ==
    LabelShown =>
        LET v == view[1].value
            label == view[1].label[1]
        IN /\ label = "n/a" <=>
                 \A i \in 1..Len(INTERPRETATION) : ~AtMostAbout(v, INTERPRETATION[i].upper)
           /\ label # "n/a" =>
                 /\ AtMostAbout(v, INTERPRETATION[BandOf(label)].upper)
                 /\ \A j \in 1..(BandOf(label) - 1) : ~AtMostAbout(v, INTERPRETATION[j].upper)
           /\ InBands(v) => label # "n/a"
           /\ \A b \in 1..3 : (v.n = b /\ v.d = 1 /\ Tiny(v) = 0) => label = INTERPRETATION[b].label

\* C11's case: the label of a value just above a band's upper bound is on show, and it
\* is that band's.
C11_Witness ==
    /\ LabelShown
    /\ view[1].value.n = 2 * view[1].value.d
    /\ Tiny(view[1].value) = 1
    /\ view[1].label = Some(INTERPRETATION[2].label)

\* C12: the stage list of the active project never holds the same name twice.
C12_StageNamesUnique ==
    Active =>
        \A i, j \in 1..Len(ActiveProject.lifecycle_stages) :
            ActiveProject.lifecycle_stages[i] = ActiveProject.lifecycle_stages[j] => i = j

\* The project after the reconciliation that follows an edit: ensure_grid over the
\* selected factors, as Steps 4 and 5 call it.
Reconciled(p) == ensure_grid(p, AllSelected(p))

\* The user deletes row i of section t.
Deletes(t, i) == Drawn(1) /\ Does([kind |-> "delete", sec |-> t, idx |-> i])

\* C13: when a stage is deleted and is no stage any more, the reconciled grid has no
\* row for it, and the stage averages and the best and worst stage of that grid do
\* not name it.
C13_RemovalCascadesToGrid ==
    [][\A t \in 1..Len(SECTION_TITLES) : \A i \in 1..Len(sections[t]) :
          (Deletes(t, i) /\ sections[t][i] \notin Range(ActiveProject'.lifecycle_stages))
          => LET q == Reconciled(ActiveProject')
             IN /\ ~Has(q.grid, sections[t][i])
                /\ ~Has(average_by_stage(q), sections[t][i])
                /\ worst_stage(average_by_stage(q)) # Some(sections[t][i])
                /\ best_stage(average_by_stage(q)) # Some(sections[t][i])]_vars

\* C14: when the user deletes a stage (a name the editor holds once), the run and the
\* render that follows it leave the name in neither the stage list nor the flags, nor
\* in the editor: also when it was the only stage.
C14_RemovedStageStaysAway ==
    [][\A t \in 1..Len(SECTION_TITLES) : \A i \in 1..Len(sections[t]) :
          (/\ Deletes(t, i)
           /\ Cardinality({k \in 1..Len(Flatten(sections)) :
                              Flatten(sections)[k] = sections[t][i]}) = 1)
          => /\ sections[t][i] \notin Range(ActiveProject'.lifecycle_stages)
             /\ ~Has(ActiveProject'.lifecycle_changed, sections[t][i])
             /\ sections[t][i] \notin Range(Flatten(sections'))]_vars

\* The last run called ensure_grid: Step 3, 4 or 5 got past its gate.
GridEnsured == Active /\ step_idx[1] \in {2, 3, 4} /\ ~Stopped

\* C15: after ensure_grid the rows of the grid are the current stages, one row each,
\* and every row has a cell for each selected factor and for no other.
C15_GridIsStagesTimesFactors ==
    GridEnsured =>
        /\ KeySet(ActiveProject.grid) = Range(ActiveProject.lifecycle_stages)
        /\ \A i \in 1..Len(ActiveProject.grid) :
              DOMAIN ActiveProject.grid[i][2] = Range(AllSelected(ActiveProject))

\* The first place of a stage in the stage list.
PlaceOf(p, stage) == CHOOSE k \in 1..Len(p.lifecycle_stages) :
    p.lifecycle_stages[k] = stage /\ \A j \in 1..(k - 1) : p.lifecycle_stages[j] # stage

\* No stage with the same average as the reported one comes before it in the stage list.
FirstAmongEquals(p, avgs, reported) ==
    (reported # None /\ reported[1] \in Range(p.lifecycle_stages)) =>
        \A k \in 1..Len(p.lifecycle_stages) :
            (Has(avgs, p.lifecycle_stages[k])
             /\ Get(avgs, p.lifecycle_stages[k]) = Get(avgs, reported[1]))
            => PlaceOf(p, reported[1]) <= k

\* C16: of the stages that share the smallest (largest) average, Step 5 reports as
\* worst (best) the one that comes first in the project's stage list.
C16_TiesGoToFirstStageInList ==
    ResultsShown =>
        /\ FirstAmongEquals(ActiveProject, view[1].by_stage, view[1].worst)
        /\ FirstAmongEquals(ActiveProject, view[1].by_stage, view[1].best)

\* C17: every cell of the active project's grid has a score that is unknown or one
\* of 1..5.
C17_ScoresAreUnknownOrOneToFive ==
    Active =>
        \A c \in CellsOf(ActiveProject) :
            c[3].cls = "FactorScore" /\ (c[3].score = None \/ c[3].score[1] \in 1..5)

\* C18: the scoring step gets past its gate, and the results step shows and exports
\* results, only when each dimension has exactly 3 selected factors.
C18_ThreePerDimensionBeforeScoringAndResults ==
    /\ (AtStep(3) /\ ~Stopped) => three_each(ActiveProject)
    /\ (AtStep(4) /\ ~Stopped) => three_each(ActiveProject)
    /\ ResultsShown => three_each(ActiveProject)

\* C19: the scoring step gets past its gate and writes the cells of its stages only
\* when scoping is complete: the functional unit is not empty (and there is a stage).
C19_NoScoringBeforeScoping ==
    (AtStep(3) /\ ~Stopped /\ ActiveProject.lifecycle_stages # << >>)
        => Strip(ActiveProject.functional_unit) # ""

\* The file the user kept is a download of Step 5's results.
ResultsKept == file # None /\ file[1].text_ok /\ "averages" \in DOMAIN file[1].data

\* C20: the results download is a project document: it has the name, core_function,
\* functional_unit and scoping_notes beside the averages, the import accepts it, and
\* the imported project has the name, stages, selections and grid that were exported.
C20_ResultsExportIsImportable ==
    ResultsKept =>
        /\ {"name", "core_function", "functional_unit", "scoping_notes"}
              \subseteq DOMAIN file[1].data
        /\ import_ok(file[1])
        /\ Imported(file[1].data).lifecycle_stages = file[1].data.lifecycle_stages
        /\ Imported(file[1].data).selected_factors = file[1].data.selected_factors
        /\ asdict(Imported(file[1].data)).grid = file[1].data.grid

\* What the user can do on the landing page: create a project, upload a document.
LandingInputs ==
    {[kind |-> "create"]} \cup {[kind |-> "import", uploaded |-> u] : u \in UploadsNow}

Lands(in) == ~Active /\ Becomes(Run(Cur, in))

RowPlace(t, i) == Len(Flatten(SubSeq(sections, 1, t - 1))) + i

\* lifecycle_changed.get(name, False)
FlagOf(p, name) == IF Has(p.lifecycle_changed, name) THEN Get(p.lifecycle_changed, name) ELSE FALSE

\* The user clicks the up or the down button of row i of section t.
Moves(dir, t, i) ==
    /\ Drawn(1)
    /\ ActiveProject.lifecycle_stages = Flatten(sections)
    /\ Does([kind |-> dir, sec |-> t, idx |-> i])

\* Project q has the stage list given, and the flags and the grid of project p.
MovedTo(p, q, stages) ==
    /\ q.lifecycle_stages = stages
    /\ \A k \in 1..Len(stages) : FlagOf(q, stages[k]) = FlagOf(p, stages[k])
    /\ q.grid = p.grid

\* C22: moving a stage up (down) swaps it with the stage before (after) it in the
\* project's stage list and leaves flags and grid alone; for the first stage up, and
\* for the last stage down, the list stays as it was.
C22_MoveSwapsNeighboursInStageList ==
    [][\A t \in 1..Len(SECTION_TITLES) : \A i \in 1..Len(sections[t]) :
          /\ Moves("up", t, i) =>
                MovedTo(ActiveProject, ActiveProject',
                        IF RowPlace(t, i) > 1
                        THEN Swap(ActiveProject.lifecycle_stages, RowPlace(t, i) - 1, RowPlace(t, i))
                        ELSE ActiveProject.lifecycle_stages)
          /\ Moves("down", t, i) =>
                MovedTo(ActiveProject, ActiveProject',
                        IF RowPlace(t, i) < Len(ActiveProject.lifecycle_stages)
                        THEN Swap(ActiveProject.lifecycle_stages, RowPlace(t, i) + 1, RowPlace(t, i))
                        ELSE ActiveProject.lifecycle_stages)]_vars

\* C23: the active project never has more than MAX_TOTAL stages.
C23_StagesWithinCapacity ==
    Active => Len(ActiveProject.lifecycle_stages) <= MAX_TOTAL

\* Every stage of the project has a grid row, with a cell for each selected factor
\* and for no other.
GridCovers(p) ==
    \A k \in 1..Len(p.lifecycle_stages) :
        /\ Has(p.grid, p.lifecycle_stages[k])
        /\ DOMAIN Get(p.grid, p.lifecycle_stages[k]) = Range(AllSelected(p))

\* The step is an edit of Step 2 or Step 3 that changed the stage list or the
\* selection of the active project.
StructuralChange ==
    /\ Drawn(1) \/ Drawn(2)
    /\ edits' = edits + 1
    /\ active_project' = active_project
    /\ \/ ActiveProject'.lifecycle_stages # ActiveProject.lifecycle_stages
       \/ ActiveProject'.selected_factors # ActiveProject.selected_factors

\* C24: after an edit that changed the stage list or the factor selection, the
\* project, and the document behind the sidebar's export button, have a grid row for
\* every stage with one cell per selected factor.
C24_GridReconciledAfterStructuralChange ==
    [][StructuralChange
          => /\ GridCovers(ActiveProject')
             /\ payload' # None => GridCovers(payload'[1])]_vars

\* The cells a document gives as plain records, each with its stage and its factor.
RecordCells(data) ==
    IF "grid" \in DOMAIN data
    THEN {c \in CellsOf(data) : c[3].cls = "dict"}
    ELSE {}

\* The live cell of stage and factor is a FactorScore with the record's score and
\* note, unknown and "" standing for the ones the record lacks.
CoercedFrom(p, c) ==
    /\ Has(p.grid, c[1])
    /\ c[2] \in DOMAIN Get(p.grid, c[1])
    /\ Get(p.grid, c[1])[c[2]] =
          FactorScore(IF "score" \in DOMAIN c[3].items THEN c[3].items.score ELSE None,
                      IF "note" \in DOMAIN c[3].items THEN c[3].items.note ELSE "")

\* The cell of stage and factor is there and has a number.
KnownAt(p, stage, factor) ==
    /\ Has(p.grid, stage)
    /\ factor \in DOMAIN Get(p.grid, stage)
    /\ Get(p.grid, stage)[factor].score # None

\* C25: an import that succeeds makes of every cell given as a record a FactorScore
\* with the record's score and note, unknown for a missing score and "" for a missing
\* note; and a cell that is unknown gets a number in no step but the one in which the
\* user clears its "I don't know" box.
C25_ImportCoercesAndUnknownStaysUnknown ==
    [][/\ \A u \in UploadsNow :
             (Imports(u) /\ Active')
             => \A c \in RecordCells(u.data) : CoercedFrom(ActiveProject', c)
       /\ (Active /\ active_project' = active_project)
             => \A c \in CellsOf(ActiveProject) :
                   (/\ c[3].cls = "FactorScore"
                    /\ c[3].score = None
                    /\ KnownAt(ActiveProject', c[1], c[2]))
                   => /\ Scoring
                      /\ Does([kind |-> "unknown", stage |-> c[1], factor |-> c[2]])]_vars

\* C25's case: the document with a cell without score and a cell without note was
\* imported and the scoring step has rendered its cells: the first is unknown with
\* its note, the second has its score and an empty note.
C25_Witness ==
    /\ AtStep(3)
    /\ ~Stopped
    /\ ~Crashed
    /\ ActiveProject.name = LegacyDoc.name
    /\ Has(ActiveProject.grid, CODE_TO_LABEL["A1"])
    /\ Get(ActiveProject.grid, CODE_TO_LABEL["A1"])["Climate change"] = FactorScore(None, "old")
    /\ Get(ActiveProject.grid, CODE_TO_LABEL["A1"])["Land Use"] = FactorScore(Some(2), "")

\* The run opens Step 2 for a project with stages while the editor is empty: the
\* preload fills the editor from lifecycle_stages.
OpensScoping ==
    /\ Active
    /\ sections_empty(Cur)
    /\ ActiveProject.lifecycle_stages # << >>
    /\ active_project' = active_project
    /\ step_idx' = Some(1)
    /\ UNCHANGED <<file, edits>>

\* C26: opening the scoping step on a project that has stages does not fail, and
\* leaves the stage names, their order and their flags as they were.
C26_OpeningScopingKeepsStages ==
    [][OpensScoping
          => /\ ~Crashed'
             /\ ActiveProject'.lifecycle_stages = ActiveProject.lifecycle_stages
             /\ \A k \in 1..Len(ActiveProject.lifecycle_stages) :
                   FlagOf(ActiveProject', ActiveProject.lifecycle_stages[k])
                      = FlagOf(ActiveProject, ActiveProject.lifecycle_stages[k])]_vars

\* ensure_grid was applied to a project (and then again).
GridCalled == view # None /\ "once" \in DOMAIN view[1] /\ view[1].once # None

GridCalledTwice == GridCalled /\ view[1].twice # None

\* The cells of current stages and listed factors: what ensure_grid is to keep.
KeptCells(p, all_factors) ==
    {c \in CellsOf(p) : c[1] \in Range(p.lifecycle_stages) /\ c[2] \in Range(all_factors)}

\* C27: the second of two calls ensure_grid(F) in a row changes nothing, and a call
\* leaves every cell of a current stage and a factor of F with its score and note.
C27_EnsureGridIdempotentAndPreserving ==
    /\ GridCalled => KeptCells(view[1].given, view[1].all_factors) \subseteq CellsOf(view[1].once[1])
    /\ GridCalledTwice => view[1].twice = view[1].once

\* C27's case: the first call changed the grid and kept a scored cell, and the second
\* call was made.
C27_Witness ==
    /\ GridCalledTwice
    /\ view[1].once[1].grid # view[1].given.grid
    /\ \E c \in KeptCells(view[1].given, view[1].all_factors) : c[3].score = Some(4)

\* C28: an active project is always a key of the collection, and a session that has an
\* active project keeps it: no step of the session sets it to none or to another
\* project (only a new session starts without one).
C28_ActiveProjectStaysAndIsStored ==
    [][/\ Active' => active_project'[1] \in DOMAIN projects'
       /\ Active => (active_project' = active_project \/ NewSession)]_vars

\* C28's case: a session with an active project went on, through an edit, to the
\* results, and the project is still the active one and in the collection.
C28_Witness ==
    /\ AtStep(4)
    /\ edits = 1
    /\ ResultsShown
    /\ active_project[1] \in DOMAIN projects
    /\ ActiveProject.name = active_project[1]

LastStep == Len(WORKFLOW_STEPS) - 1

\* The step index after the run that the interaction in starts now.
StepAfter(in) == Run(Cur, in).step_idx

\* C29: the step index of a session with an active project is one of
\* 0 .. len(WORKFLOW_STEPS)-1; a create or an import that succeeds sets it to 0; on a
\* step k drawn to its end, Back takes it to k-1 when k > 0 and Next to k+1 when k is
\* not the last step, and they leave it alone otherwise.
C29_StepIndexInRange ==
    /\ Active => (step_idx # None /\ step_idx[1] \in 0..LastStep)
    /\ ~Active => \A in \in LandingInputs :
                      Run(Cur, in).active_project # None => StepAfter(in) = Some(0)
    /\ \A k \in 0..LastStep :
          Drawn(k) => /\ StepAfter([kind |-> "back"]) = Some(IF k > 0 THEN k - 1 ELSE k)
                      /\ StepAfter([kind |-> "next"]) = Some(IF k < LastStep THEN k + 1 ELSE k)

\* C29's case: the session is on the last step, drawn to its end: Next has nowhere
\* to go.
C29_Witness == Drawn(LastStep) /\ ResultsShown /\ step_idx = Some(LastStep)

\* C30: after a render of the scoping step that reached its end, the keys of
\* lifecycle_changed are exactly the names in lifecycle_stages.
C30_FlagsAreForExactlyTheStages ==
    Drawn(1) => KeySet(ActiveProject.lifecycle_changed) = Range(ActiveProject.lifecycle_stages)

====
